---- MODULE Spec2Model ----
(***************************************************************************)
(* The playback synchronisation relay (server/server.py, SyncServer) and   *)
(* the per-client bridge (client/client.py, SyncClient).                   *)
(*                                                                         *)
(* A connection handle of the relay and the client behind it share one     *)
(* index p \in Peers, given in the order of connecting: a SyncClient opens *)
(* exactly one relay connection and never reconnects.  Seconds are counted *)
(* in tenths (100.0 s is 1000).                                            *)
(* A line of either protocol is a record [t |-> ...]: "blank" (only white  *)
(* space), "badjson" (json.loads raises JSONDecodeError, e.g. `{not json`) *)
(* or "obj" with the decoded JSON object in field obj.  A JSON object is a *)
(* record whose DOMAIN is its key set, so msg.get(k) is a DOMAIN test.     *)
(* Field id of an event is a history tag naming the input it came from; no *)
(* code reads it.  A step of a loop takes one whole line: the buffers of   *)
(* the loops keep the order and the boundaries of the lines.  Reads and    *)
(* writes of the canonical state outside the lock are steps of their own.  *)
(*                                                                         *)
(* Specifications: Spec (relay and the sending side of the clients),       *)
(* SpecShape (relay with peers that send lines of any shape), SpecPeer and *)
(* SpecSession (one bridge with its two streams delivering anything, the   *)
(* latter with closes and fair loops), SpecSync (relay and bridges, fair), *)
(* SpecEcho (relay, bridges and players, fair), SpecConnect (the startup   *)
(* of one client against the clock).                                       *)
(***************************************************************************)
EXTENDS Integers, Sequences, FiniteSets, TLC

\* ---------------------------------------------------------------- bounds
NumPeers == 3
MaxInputs == 3

Peers == 1..NumPeers

\* timesync.tolerance, default 2.5 s, in tenths of a second
time_tolerance == 25

\* values the players report
PauseData == {"true", "false"}
TimeData == {1000, 1010, 1035}

VARIABLES
    clients,        \* SyncServer.clients
    lock,           \* SyncServer.lock: 0 when free, else the holding handler
    current_pause,  \* SyncServer.current_pause
    current_time,   \* SyncServer.current_time
    hpc,            \* position of each handle_client thread: "none", "accepted"
                    \* (spawned), "recv" (registered, at its read), "write"
                    \* (comparison passed), "bcast" (state written), "send"
                    \* (holds the lock), "finally", "closed"
    hmsg,           \* the message a handler carries through _handle_message
    outbox,         \* every line each client has put on its relay connection
    hpos,           \* how many lines of outbox the connection's handler has taken
    inbox,          \* every sendall the relay made on each connection
    lpos,           \* how many lines of inbox the client's listener has read
    cstate,         \* each client process: "init", "running", "exited"
    opc,            \* each _observe_mpv thread: "run" or "crashed"
    lpc,            \* each _listen_server thread: "run" or "crashed"
    cmds,           \* commands each client has written to its player
    ninputs,        \* lines the environment has produced so far
    player,         \* the pause property of each client's player
    mpvq,           \* notifications each player has written and its client's
                    \* _observe_mpv has not read yet
    now,            \* SyncClient.connect: time.time() since line 86, in tenths
    cpc,            \* SyncClient.connect: "dial", "caught" (in the except
                    \* clause), "sleep", "relay" (past the loop), "connected",
                    \* "timeout" (TimeoutError raised), "relay_error"
    ipc_up,         \* the player listens on its control socket
    server_sock     \* SyncClient.server_sock of the connecting client

startup == <<now, cpc, ipc_up, server_sock>>
playerside == <<player, mpvq>>

vars == <<clients, lock, current_pause, current_time, hpc, hmsg, outbox, hpos,
          inbox, lpos, cstate, opc, lpc, cmds, ninputs, player, mpvq,
          now, cpc, ipc_up, server_sock>>

\* ---------------------------------------------------------------- codec
Abs(x) == IF x < 0 THEN -x ELSE x

Has(msg, k) == k \in DOMAIN msg

NoMsg == [event |-> "none"]

BlankLine == [t |-> "blank"]
BadJsonLine == [t |-> "badjson"]
\* a line json.loads turns into a value that is no dict: `[1, 2]`, `5`, `null`
NonObjLine == [t |-> "nonobj"]

\* a JSON value in the place of a number that is none (a string, a list):
\* Python raises TypeError when it is subtracted from a float
NotANumber == -1
IsNumber(v) == v # NotANumber

\* json.dumps(message) + "\n"
Dumps(message) == [t |-> "obj", obj |-> message]

\* uuid.uuid4(): one token per client process, distinct between clients
client_id(p) == p

\* _send_to_server: stamps the source, then serialises
Stamp(event, p, n) == [k \in DOMAIN event \cup {"source", "id"} |->
                         IF k = "source" THEN client_id(p)
                         ELSE IF k = "id" THEN n
                         ELSE event[k]]

\* ---------------------------------------------------------------- relay
\* server.py:102
PauseAccepted(new_pause, cur) == new_pause # cur

\* the comparison with >= in place of >
TimeAccepted_inclusive(new_time, cur) == Abs(new_time - cur) >= time_tolerance

\* server.py:111-112
TimeAccepted(new_time, cur) == Abs(new_time - cur) > time_tolerance

\* a round that does not leave out the sender
Recipients_all(cs, sender_conn) == cs

\* server.py:45-46: the connections a round writes to
Recipients(cs, sender_conn) == {client \in cs : client # sender_conn}

\* a round that stamps the event with the relay's own identity
Raw_restamped(message) == Dumps([message EXCEPT !.source = 0])

\* server.py:43: the bytes of a round
Raw(message) == Dumps(message)

\* server.py:16-22 and client.py:68-75, 85-86: nobody connected yet; the
\* players start paused (client.py:41)
Init ==
    /\ clients = {}
    /\ lock = 0
    /\ current_pause = "false"
    /\ current_time = 0
    /\ hpc = [p \in Peers |-> "none"]
    /\ hmsg = [p \in Peers |-> NoMsg]
    /\ outbox = [p \in Peers |-> <<>>]
    /\ hpos = [p \in Peers |-> 0]
    /\ inbox = [p \in Peers |-> <<>>]
    /\ lpos = [p \in Peers |-> 0]
    /\ cstate = [p \in Peers |-> "init"]
    /\ opc = [p \in Peers |-> "run"]
    /\ lpc = [p \in Peers |-> "run"]
    /\ cmds = [p \in Peers |-> <<>>]
    /\ ninputs = 0
    /\ player = [p \in Peers |-> "true"]
    /\ mpvq = [p \in Peers |-> <<>>]
    /\ now = 0
    /\ cpc = "dial"
    /\ ipc_up = FALSE
    /\ server_sock = "None"

\* client.py:99-107 and server.py:59-64: the client dials the relay and starts
\* its two loops; the accept loop spawns the connection's handler
Connect(p) ==
    /\ cstate[p] = "init"
    /\ \A q \in Peers : q < p => cstate[q] # "init"
    /\ cstate' = [cstate EXCEPT ![p] = "running"]
    /\ hpc' = [hpc EXCEPT ![p] = "accepted"]
    /\ cmds' = [cmds EXCEPT ![p] =
                  <<[cmd |-> "observe_property", name |-> "pause"],
                    [cmd |-> "observe_property", name |-> "time-pos"]>>]
    /\ UNCHANGED <<startup, playerside, clients, lock, current_pause, current_time, hmsg, outbox, hpos,
                   inbox, lpos, opc, lpc, ninputs>>

\* server.py:69-70
Register(c) ==
    /\ hpc[c] = "accepted"
    /\ lock = 0
    /\ clients' = clients \cup {c}
    /\ hpc' = [hpc EXCEPT ![c] = "recv"]
    /\ UNCHANGED <<startup, playerside, lock, current_pause, current_time, hmsg, outbox, hpos, inbox, lpos,
                   cstate, opc, lpc, cmds, ninputs>>

\* a handler that lets JSONDecodeError end its loop
OnInvalidJSON_raise == "finally"

\* server.py:84-88: what the handler does after a line json.loads rejects
OnInvalidJSON == "recv"

\* a handler that catches what _handle_message raises and reads on
OnRaise_caught == "recv"

\* server.py:72-95: an exception other than JSONDecodeError leaves the try
\* block through the finally clause
OnRaise == "finally"

\* server.py:99-117: _handle_message up to and including the comparison with
\* the canonical state; "write" when the event is accepted, "raise" when the
\* subtraction of line 111 raises TypeError
Decide(msg, cur_pause, cur_time) ==
    IF ~Has(msg, "event") THEN "recv"
    ELSE IF msg.event = "pause"
    THEN LET new_pause == IF Has(msg, "paused") THEN msg.paused ELSE "null"
         IN  IF PauseAccepted(new_pause, cur_pause) THEN "write" ELSE "recv"
    ELSE IF msg.event \in {"seek", "time"}
    THEN IF ~Has(msg, "raw_time") THEN "recv"
         ELSE IF ~IsNumber(msg.raw_time) THEN "raise"
         ELSE IF TimeAccepted(msg.raw_time, cur_time) THEN "write" ELSE "recv"
    ELSE "recv"

\* server.py:75-90 with 99-112: the handler takes the next line of its
\* connection, decodes it and compares the event with the canonical state;
\* msg.get of line 99 raises AttributeError when msg is no dict
HandleLine(c) ==
    /\ hpc[c] = "recv"
    /\ hpos[c] < Len(outbox[c])
    /\ LET line == outbox[c][hpos[c] + 1]
           res == IF line.t = "blank" THEN "recv"
                  ELSE IF line.t = "badjson" THEN OnInvalidJSON
                  ELSE IF line.t = "nonobj" THEN "raise"
                  ELSE Decide(line.obj, current_pause, current_time)
           next == IF res = "raise" THEN OnRaise ELSE res
       IN  /\ hpc' = [hpc EXCEPT ![c] = next]
           /\ hmsg' = [hmsg EXCEPT ![c] = IF next = "write" THEN line.obj ELSE NoMsg]
    /\ hpos' = [hpos EXCEPT ![c] = hpos[c] + 1]
    /\ UNCHANGED <<startup, playerside, clients, lock, current_pause, current_time, outbox, inbox, lpos,
                   cstate, opc, lpc, cmds, ninputs>>

\* server.py:103 and 113: the accepted value becomes the canonical state
WriteState(c) ==
    /\ hpc[c] = "write"
    /\ IF hmsg[c].event = "pause"
       THEN /\ current_pause' = (IF Has(hmsg[c], "paused") THEN hmsg[c].paused ELSE "null")
            /\ UNCHANGED current_time
       ELSE /\ current_time' = hmsg[c].raw_time
            /\ UNCHANGED current_pause
    /\ hpc' = [hpc EXCEPT ![c] = "bcast"]
    /\ UNCHANGED <<startup, playerside, clients, lock, hmsg, outbox, hpos, inbox, lpos, cstate, opc, lpc,
                   cmds, ninputs>>

\* server.py:44: broadcast_to_others takes the lock
AcquireLock(c) ==
    /\ hpc[c] = "bcast"
    /\ lock = 0
    /\ lock' = c
    /\ hpc' = [hpc EXCEPT ![c] = "send"]
    /\ UNCHANGED <<startup, playerside, clients, current_pause, current_time, hmsg, outbox, hpos, inbox, lpos,
                   cstate, opc, lpc, cmds, ninputs>>

\* a connection that writes its lines in front of the ones written before
Deliver_front(q, entry) == <<entry>> \o q

\* server.py:48: sendall puts the bytes behind what the connection carries
Deliver(q, entry) == Append(q, entry)

\* a round that the first failing write ends
Attempted_abort(targets, failing) ==
    {t \in targets : \A f \in failing : t <= f}

\* server.py:47-50: the connections of a round on which sendall is called, when
\* the writes to `failing` raise
Attempted(targets, failing) == targets

\* server.py:49-50: where the sender's handler continues after the round
AfterRound(failing) == "recv"

\* server.py:45-50: the round under the lock.  A write to a connection whose
\* client is gone either raises or is taken by the kernel and lost.
SendAll(c) ==
    /\ hpc[c] = "send"
    /\ LET targets == Recipients(clients, c)
       IN  \E failing \in SUBSET {t \in targets : cstate[t] = "exited"} :
             /\ inbox' = [p \in Peers |->
                            IF p \in Attempted(targets, failing)
                            THEN Deliver(inbox[p], [line |-> Raw(hmsg[c]),
                                                    ok |-> p \notin failing])
                            ELSE inbox[p]]
             /\ hpc' = [hpc EXCEPT ![c] = AfterRound(failing)]
    /\ lock' = 0
    /\ hmsg' = [hmsg EXCEPT ![c] = NoMsg]
    /\ UNCHANGED <<startup, playerside, clients, current_pause, current_time, outbox, hpos, lpos, cstate, opc,
                   lpc, cmds, ninputs>>

\* server.py:75-77: recv returns no data once the client is gone
HandleEOF(c) ==
    /\ hpc[c] = "recv"
    /\ hpos[c] = Len(outbox[c])
    /\ cstate[c] = "exited"
    /\ hpc' = [hpc EXCEPT ![c] = "finally"]
    /\ UNCHANGED <<startup, playerside, clients, lock, current_pause, current_time, hmsg, outbox, hpos, inbox,
                   lpos, cstate, opc, lpc, cmds, ninputs>>

\* server.py:75-79: recv raises (the connection was reset); what the client
\* had sent and the handler had not read stays unread
HandleReadError(c) ==
    /\ hpc[c] = "recv"
    /\ cstate[c] = "exited"
    /\ hpos[c] < Len(outbox[c])
    /\ hpc' = [hpc EXCEPT ![c] = OnRaise]
    /\ UNCHANGED <<startup, playerside, clients, lock, current_pause, current_time, hmsg,
                   outbox, hpos, inbox, lpos, cstate, opc, lpc, cmds, ninputs>>

\* a finally clause that leaves the connection in the set
Discard_keep(cs, conn) == cs

\* server.py:94
Discard(cs, conn) == cs \ {conn}

\* server.py:91-95
Deregister(c) ==
    /\ hpc[c] = "finally"
    /\ lock = 0
    /\ clients' = Discard(clients, c)
    /\ hpc' = [hpc EXCEPT ![c] = "closed"]
    /\ UNCHANGED <<startup, playerside, lock, current_pause, current_time, hmsg, outbox, hpos, inbox, lpos,
                   cstate, opc, lpc, cmds, ninputs>>

\* --------------------------------------------------------------- client
\* notifications of the player's control protocol
MpvLines ==
    {Dumps([event |-> "property-change", name |-> "pause", data |-> d]) : d \in PauseData}
    \cup {Dumps([event |-> "property-change", name |-> "time-pos", data |-> d]) : d \in TimeData}
    \cup {Dumps([event |-> "property-change", name |-> "time-pos"]),
          Dumps([event |-> "seek"]),
          Dumps([error |-> "success"])}

\* a loop that also forwards the seek notification
Translate_seek(msg) ==
    IF Has(msg, "event") /\ msg.event = "seek"
    THEN <<[event |-> "seek"]>>
    ELSE IF Has(msg, "event") /\ msg.event = "property-change"
    THEN IF Has(msg, "name") /\ msg.name = "pause"
         THEN <<[event |-> "pause", paused |-> IF Has(msg, "data") THEN msg.data ELSE "null"]>>
         ELSE IF Has(msg, "name") /\ msg.name = "time-pos"
         THEN IF Has(msg, "data")
              THEN <<[event |-> "time", raw_time |-> msg.data]>>
              ELSE <<>>
         ELSE <<>>
    ELSE <<>>

\* client.py:142-159: the events one decoded notification is translated to
Translate(msg) ==
    IF Has(msg, "event") /\ msg.event = "property-change"
    THEN IF Has(msg, "name") /\ msg.name = "pause"
         THEN <<[event |-> "pause", paused |-> IF Has(msg, "data") THEN msg.data ELSE "null"]>>
         ELSE IF Has(msg, "name") /\ msg.name = "time-pos"
         THEN IF Has(msg, "data")
              THEN <<[event |-> "time", raw_time |-> msg.data]>>
              ELSE <<>>
         ELSE <<>>
    ELSE <<>>

\* client.py:132-159 with 120-123: what one read of the player's channel
\* does to the loop and to the relay connection; n tags the event sent
ObserveLine(p, line, n) ==
    IF line.t = "eof"
    THEN /\ opc' = [opc EXCEPT ![p] = "ended"]
         /\ UNCHANGED outbox
    ELSE IF line.t = "blank"
    THEN UNCHANGED <<opc, outbox>>
    ELSE IF line.t = "badjson"
    THEN /\ opc' = [opc EXCEPT ![p] = "crashed"]
         /\ UNCHANGED outbox
    ELSE LET out == Translate(line.obj)
         IN  IF out = <<>>
             THEN UNCHANGED <<opc, outbox>>
             ELSE IF hpc[p] = "closed"
             THEN /\ opc' = [opc EXCEPT ![p] = "crashed"]
                  /\ UNCHANGED outbox
             ELSE /\ outbox' = [outbox EXCEPT ![p] =
                               Append(outbox[p], Dumps(Stamp(out[1], p, n)))]
                  /\ UNCHANGED opc

\* client.py:132-159 with 120-123: the player-to-network loop handles one line
observe_mpv(p, line) ==
    /\ cstate[p] = "running"
    /\ opc[p] = "run"
    /\ ninputs < MaxInputs
    /\ ninputs' = ninputs + 1
    /\ ObserveLine(p, line, ninputs + 1)
    /\ UNCHANGED <<startup, playerside, clients, lock, current_pause, current_time, hpc, hmsg, hpos,
                   inbox, lpos, cstate, lpc, cmds>>

ObserveMpv(p) == \E line \in MpvLines : observe_mpv(p, line)

\* a peer puts a line on its relay connection that is no event
RawLines == {BadJsonLine}

RawSend(p) ==
    /\ cstate[p] = "running"
    /\ ninputs < MaxInputs
    /\ ninputs' = ninputs + 1
    /\ \E line \in RawLines : outbox' = [outbox EXCEPT ![p] = Append(outbox[p], line)]
    /\ UNCHANGED <<startup, playerside, clients, lock, current_pause, current_time, hpc, hmsg, hpos,
                   inbox, lpos, cstate, opc, lpc, cmds>>

\* a listener without the check of the source
IsSelfEcho_never(msg, p) == FALSE

\* client.py:176
IsSelfEcho(msg, p) == Has(msg, "source") /\ msg.source = client_id(p)

\* a listener that matches no pause event
Apply_nopause(msg) ==
    IF ~Has(msg, "event") THEN [raise |-> FALSE, out |-> <<>>]
    ELSE IF msg.event \in {"seek", "time"}
    THEN IF Has(msg, "raw_time")
         THEN [raise |-> FALSE,
               out |-> <<[cmd |-> "set_property", name |-> "time-pos",
                          raw_time |-> msg.raw_time, id |-> msg.id]>>]
         ELSE [raise |-> TRUE, out |-> <<>>]
    ELSE [raise |-> FALSE, out |-> <<>>]

\* client.py:179-185: the commands one event is applied as; raise when the
\* event lacks the field its branch subscripts
Apply(msg) ==
    IF ~Has(msg, "event") THEN [raise |-> FALSE, out |-> <<>>]
    ELSE IF msg.event = "pause"
    THEN IF Has(msg, "paused")
         THEN [raise |-> FALSE,
               out |-> <<[cmd |-> "set_property", name |-> "pause",
                          paused |-> msg.paused, id |-> msg.id]>>]
         ELSE [raise |-> TRUE, out |-> <<>>]
    ELSE IF msg.event \in {"seek", "time"}
    THEN IF Has(msg, "raw_time")
         THEN [raise |-> FALSE,
               out |-> <<[cmd |-> "set_property", name |-> "time-pos",
                          raw_time |-> msg.raw_time, id |-> msg.id]>>]
         ELSE [raise |-> TRUE, out |-> <<>>]
    ELSE [raise |-> FALSE, out |-> <<>>]

\* client.py:165-185: the network-to-player loop handles one line
ListenServer(p) ==
    /\ cstate[p] = "running"
    /\ lpc[p] = "run"
    /\ lpos[p] < Len(inbox[p])
    /\ lpos' = [lpos EXCEPT ![p] = lpos[p] + 1]
    /\ LET line == inbox[p][lpos[p] + 1].line
       IN  IF line.t = "blank"
           THEN UNCHANGED <<lpc, cmds>>
           ELSE IF line.t = "badjson"
           THEN /\ lpc' = [lpc EXCEPT ![p] = "crashed"]
                /\ UNCHANGED cmds
           ELSE IF IsSelfEcho(line.obj, p)
           THEN UNCHANGED <<lpc, cmds>>
           ELSE LET res == Apply(line.obj)
                IN  IF res.raise
                    THEN /\ lpc' = [lpc EXCEPT ![p] = "crashed"]
                         /\ UNCHANGED cmds
                    ELSE /\ cmds' = [cmds EXCEPT ![p] = cmds[p] \o res.out]
                         /\ UNCHANGED lpc
    /\ UNCHANGED <<startup, playerside, clients, lock, current_pause, current_time, hpc, hmsg, outbox,
                   hpos, inbox, cstate, opc, ninputs>>

\* client.py:109-113 and 203-204: the process ends and its sockets close
ClientExit(p) ==
    /\ cstate[p] = "running"
    /\ ninputs < MaxInputs
    /\ ninputs' = ninputs + 1
    /\ cstate' = [cstate EXCEPT ![p] = "exited"]
    /\ UNCHANGED <<startup, playerside, clients, lock, current_pause, current_time, hpc, hmsg, outbox,
                   hpos, inbox, lpos, opc, lpc, cmds>>

Next ==
    \/ \E p \in Peers : Connect(p)
    \/ \E p \in Peers : Register(p)
    \/ \E p \in Peers : ObserveMpv(p)
    \/ \E p \in Peers : RawSend(p)
    \/ \E p \in Peers : HandleLine(p)
    \/ \E p \in Peers : WriteState(p)
    \/ \E p \in Peers : AcquireLock(p)
    \/ \E p \in Peers : SendAll(p)
    \/ \E p \in Peers : HandleEOF(p)
    \/ \E p \in Peers : Deregister(p)
    \/ \E p \in Peers : ClientExit(p)

Spec == Init /\ [][Next]_vars

\* ------------------------------------------------- the bridge on its own
\* what the relay connection may deliver to client p as input n: events of
\* any source, its own included, and lines that are no event
RelayLines(n) ==
    {Dumps([event |-> "pause", paused |-> "true", source |-> client_id(q), id |-> n]) :
        q \in Peers}
    \cup {Dumps([event |-> "time", raw_time |-> 1000, source |-> client_id(q), id |-> n]) :
        q \in Peers}
    \cup {Dumps([event |-> "pause", source |-> client_id(q), id |-> n]) : q \in Peers}
    \cup {BadJsonLine, BlankLine}

RelayLine(p) ==
    /\ cstate[p] = "running"
    /\ ninputs < MaxInputs
    /\ ninputs' = ninputs + 1
    /\ \E line \in RelayLines(ninputs + 1) :
         inbox' = [inbox EXCEPT ![p] = Append(inbox[p], [line |-> line, ok |-> TRUE])]
    /\ UNCHANGED <<startup, playerside, clients, lock, current_pause, current_time, hpc, hmsg, outbox,
                   hpos, lpos, cstate, opc, lpc, cmds>>

\* the player's channel delivering any line
ObserveMpvAny(p) ==
    \E line \in MpvLines \cup {BadJsonLine, BlankLine} : observe_mpv(p, line)

NextPeer ==
    \/ \E p \in Peers : Connect(p)
    \/ \E p \in Peers : RelayLine(p)
    \/ \E p \in Peers : ObserveMpvAny(p)
    \/ \E p \in Peers : ListenServer(p)
    \/ \E p \in Peers : ClientExit(p)

SpecPeer == Init /\ [][NextPeer]_vars

\* inputs of the specifications that are checked for what eventually happens
SyncInputs == 2

\* ------------------------------------- the bridge on its own, with closes
\* recv returns no data
EofLine == [t |-> "eof"]

\* the history tag of a notification
Tag(line, n) ==
    IF line.t = "obj"
    THEN Dumps([k \in DOMAIN line.obj \cup {"id"} |-> IF k = "id" THEN n ELSE line.obj[k]])
    ELSE line
TagOf(line) == IF line.t = "obj" /\ Has(line.obj, "id") THEN line.obj.id ELSE 0

\* what the player may write as input n
PlayerLines(n) ==
    {Tag(line, n) : line \in MpvLines}
    \cup {Tag(Dumps([event |-> "property-change", name |-> "pause"]), n),
          Tag(Dumps([event |-> "property-change", name |-> "volume", data |-> 1000]), n),
          BadJsonLine, BlankLine}

Quit(p) == \E i \in DOMAIN mpvq[p] : mpvq[p][i] = EofLine

\* the player writes a line to its control channel
PlayerLine(p) ==
    /\ cstate[p] = "running"
    /\ ~Quit(p)
    /\ ninputs < MaxInputs
    /\ ninputs' = ninputs + 1
    /\ \E line \in PlayerLines(ninputs + 1) :
         mpvq' = [mpvq EXCEPT ![p] = Append(mpvq[p], line)]
    /\ UNCHANGED <<startup, player, clients, lock, current_pause, current_time, hpc, hmsg,
                   outbox, hpos, inbox, lpos, cstate, opc, lpc, cmds>>

\* the player goes away and its channel closes
PlayerQuit(p) ==
    /\ cstate[p] = "running"
    /\ ~Quit(p)
    /\ ninputs < MaxInputs
    /\ ninputs' = ninputs + 1
    /\ mpvq' = [mpvq EXCEPT ![p] = Append(mpvq[p], EofLine)]
    /\ UNCHANGED <<startup, player, clients, lock, current_pause, current_time, hpc, hmsg,
                   outbox, hpos, inbox, lpos, cstate, opc, lpc, cmds>>

\* client.py:132-159: the player-to-network loop reads what the player wrote
ObserveNext(p) ==
    /\ cstate[p] = "running"
    /\ opc[p] = "run"
    /\ mpvq[p] # <<>>
    /\ mpvq' = [mpvq EXCEPT ![p] = Tail(mpvq[p])]
    /\ ObserveLine(p, Head(mpvq[p]), TagOf(Head(mpvq[p])))
    /\ UNCHANGED <<startup, player, clients, lock, current_pause, current_time, hpc, hmsg,
                   hpos, inbox, lpos, cstate, lpc, cmds, ninputs>>

\* the relay closes the connection of client p
RelayClose(p) ==
    /\ cstate[p] = "running"
    /\ hpc[p] = "accepted"
    /\ ninputs < MaxInputs
    /\ ninputs' = ninputs + 1
    /\ hpc' = [hpc EXCEPT ![p] = "closed"]
    /\ UNCHANGED <<startup, playerside, clients, lock, current_pause, current_time, hmsg,
                   outbox, hpos, inbox, lpos, cstate, opc, lpc, cmds>>

\* client.py:165-167: recv returns no data once the relay has closed the
\* connection and everything written to it is read
ListenEOF(p) ==
    /\ cstate[p] = "running"
    /\ lpc[p] = "run"
    /\ lpos[p] = Len(inbox[p])
    /\ hpc[p] = "closed"
    /\ lpc' = [lpc EXCEPT ![p] = "ended"]
    /\ UNCHANGED <<startup, playerside, clients, lock, current_pause, current_time, hpc,
                   hmsg, outbox, hpos, inbox, lpos, cstate, opc, cmds, ninputs>>

NextSession ==
    /\ \/ \E p \in Peers : Connect(p)
       \/ \E p \in Peers : PlayerLine(p)
       \/ \E p \in Peers : PlayerQuit(p)
       \/ \E p \in Peers : ObserveNext(p)
       \/ \E p \in Peers : RelayLine(p)
       \/ \E p \in Peers : RelayClose(p)
       \/ \E p \in Peers : ListenServer(p)
       \/ \E p \in Peers : ListenEOF(p)
       \/ \E p \in Peers : ClientExit(p)
    /\ ninputs' <= SyncInputs

\* the two loops of every client keep being scheduled; nothing makes the
\* user interrupt the process
SessionFairness ==
    \A p \in Peers :
        /\ WF_vars(ObserveNext(p))
        /\ WF_vars(ListenServer(p))
        /\ WF_vars(ListenEOF(p))

SpecSession == Init /\ [][NextSession]_vars /\ SessionFairness

\* ------------------------------------------------ relay and bridges, fair

NextSync ==
    /\ \/ Next
       \/ \E p \in Peers : ListenServer(p)
    /\ ninputs' <= SyncInputs

\* every thread of the relay and every listener thread keeps being scheduled
Fairness ==
    \A p \in Peers :
        /\ WF_vars(Register(p))
        /\ WF_vars(HandleLine(p))
        /\ WF_vars(WriteState(p))
        /\ WF_vars(AcquireLock(p))
        /\ WF_vars(SendAll(p))
        /\ WF_vars(HandleEOF(p))
        /\ WF_vars(Deregister(p))
        /\ WF_vars(ListenServer(p))

SpecSync == Init /\ [][NextSync]_vars /\ Fairness

\* ------------------------------------------------ startup of one client
\* client.py:86: the deadline, in tenths of a second after the clock is read
connect_deadline == 50
\* client.py:96: time.sleep(0.1)
retry_interval == 1
\* how much longer than asked a sleep, and how long a dial, may take
MaxLate == 1

\* a check that gives up at the deadline itself
DeadlinePassed_early(t) == t >= connect_deadline

\* client.py:92
DeadlinePassed(t) == t > connect_deadline

\* the player creates its control socket
IpcListen ==
    /\ cpc \in {"dial", "caught", "sleep"}
    /\ ~ipc_up
    /\ ipc_up' = TRUE
    /\ UNCHANGED <<now, cpc, server_sock, playerside, clients, lock, current_pause,
                   current_time, hpc, hmsg, outbox, hpos, inbox, lpos, cstate, opc,
                   lpc, cmds, ninputs>>

\* client.py:88-91: one attempt; FileNotFoundError or ConnectionRefusedError
\* while the player does not listen
DialMpv ==
    /\ cpc = "dial"
    /\ cpc' = IF ipc_up THEN "relay" ELSE "caught"
    /\ \E d \in 0..MaxLate : now' = now + d
    /\ UNCHANGED <<ipc_up, server_sock, playerside, clients, lock, current_pause,
                   current_time, hpc, hmsg, outbox, hpos, inbox, lpos, cstate, opc,
                   lpc, cmds, ninputs>>

\* client.py:92-95
CheckDeadline ==
    /\ cpc = "caught"
    /\ cpc' = IF DeadlinePassed(now) THEN "timeout" ELSE "sleep"
    /\ UNCHANGED <<now, ipc_up, server_sock, playerside, clients, lock, current_pause,
                   current_time, hpc, hmsg, outbox, hpos, inbox, lpos, cstate, opc,
                   lpc, cmds, ninputs>>

\* client.py:96
Sleep ==
    /\ cpc = "sleep"
    /\ cpc' = "dial"
    /\ \E d \in retry_interval..(retry_interval + MaxLate) : now' = now + d
    /\ UNCHANGED <<ipc_up, server_sock, playerside, clients, lock, current_pause,
                   current_time, hpc, hmsg, outbox, hpos, inbox, lpos, cstate, opc,
                   lpc, cmds, ninputs>>

\* client.py:100-101: the relay socket is created and dialled; a refused or
\* unreachable relay raises out of connect
DialRelay ==
    /\ cpc = "relay"
    /\ \/ cpc' = "connected" /\ server_sock' = "connected"
       \/ cpc' = "relay_error" /\ server_sock' = "created"
    /\ UNCHANGED <<now, ipc_up, playerside, clients, lock, current_pause,
                   current_time, hpc, hmsg, outbox, hpos, inbox, lpos, cstate, opc,
                   lpc, cmds, ninputs>>

NextConnect ==
    \/ IpcListen
    \/ DialMpv
    \/ CheckDeadline
    \/ Sleep
    \/ DialRelay

\* the connecting thread keeps running
SpecConnect ==
    Init /\ [][NextConnect]_vars
         /\ WF_vars(DialMpv) /\ WF_vars(CheckDeadline) /\ WF_vars(Sleep) /\ WF_vars(DialRelay)

\* ------------------------------------------- the relay and lines of any shape
\* what a peer may put on its relay connection as input n: events, a pause
\* event without its value, a time event whose raw_time is a string, a JSON
\* value that is no object, a line that is no JSON
ShapeLines(p, n) ==
    {Dumps([event |-> "pause", paused |-> v, source |-> client_id(p), id |-> n]) :
        v \in PauseData}
    \cup {Dumps([event |-> "time", raw_time |-> 1000, source |-> client_id(p), id |-> n]),
          Dumps([event |-> "pause", source |-> client_id(p), id |-> n]),
          Dumps([event |-> "time", raw_time |-> NotANumber, source |-> client_id(p), id |-> n]),
          NonObjLine,
          BadJsonLine}

ShapeSend(p) ==
    /\ cstate[p] = "running"
    /\ ninputs < MaxInputs
    /\ ninputs' = ninputs + 1
    /\ \E line \in ShapeLines(p, ninputs + 1) :
         outbox' = [outbox EXCEPT ![p] = Append(outbox[p], line)]
    /\ UNCHANGED <<startup, playerside, clients, lock, current_pause, current_time, hpc,
                   hmsg, hpos, inbox, lpos, cstate, opc, lpc, cmds>>

NextShape ==
    \/ \E p \in Peers : Connect(p)
    \/ \E p \in Peers : Register(p)
    \/ \E p \in Peers : ShapeSend(p)
    \/ \E p \in Peers : HandleLine(p)
    \/ \E p \in Peers : WriteState(p)
    \/ \E p \in Peers : AcquireLock(p)
    \/ \E p \in Peers : SendAll(p)
    \/ \E p \in Peers : HandleEOF(p)
    \/ \E p \in Peers : HandleReadError(p)
    \/ \E p \in Peers : Deregister(p)
    \/ \E p \in Peers : ClientExit(p)

SpecShape == Init /\ [][NextShape]_vars

\* --------------------------------------- relay, bridges and players, fair
\* two clients, of which the first one's user makes the changes
EchoPeers == 2
EchoInputs == 4
MaxQueue == 3

Flip(v) == IF v = "true" THEN "false" ELSE "true"
PauseChange(v, n) == Tag(Dumps([event |-> "property-change", name |-> "pause", data |-> v]), n)

\* the user of client p toggles pause at the player; the player reports the
\* change of the observed property
UserPause(p) ==
    /\ cstate[p] = "running"
    /\ ninputs < EchoInputs
    /\ ninputs' = ninputs + 1
    /\ player' = [player EXCEPT ![p] = Flip(player[p])]
    /\ mpvq' = [mpvq EXCEPT ![p] = Append(mpvq[p], PauseChange(Flip(player[p]), ninputs + 1))]
    /\ UNCHANGED <<startup, clients, lock, current_pause, current_time, hpc, hmsg,
                   outbox, hpos, inbox, lpos, cstate, opc, lpc, cmds>>

\* the player takes the next command of its client (client.py:115-118,
\* 127-128, 182, 185); a set_property of pause that changes the value is
\* reported as a change of the observed property
PlayerApply(p) ==
    /\ cmds[p] # <<>>
    /\ cmds' = [cmds EXCEPT ![p] = Tail(cmds[p])]
    /\ LET c == Head(cmds[p])
       IN  IF c.cmd = "set_property" /\ c.name = "pause" /\ c.paused \in PauseData
              /\ c.paused # player[p]
           THEN /\ player' = [player EXCEPT ![p] = c.paused]
                /\ mpvq' = [mpvq EXCEPT ![p] = Append(mpvq[p], PauseChange(c.paused, c.id))]
           ELSE UNCHANGED <<player, mpvq>>
    /\ UNCHANGED <<startup, clients, lock, current_pause, current_time, hpc, hmsg,
                   outbox, hpos, inbox, lpos, cstate, opc, lpc, ninputs>>

\* server.py:79-80 and client.py:171-172: a line taken off a buffer is gone;
\* the lines of connection p that both ends have read are dropped from the
\* histories
Forget(p) ==
    /\ hpos[p] > 0 \/ lpos[p] > 0
    /\ outbox' = [outbox EXCEPT ![p] = SubSeq(outbox[p], hpos[p] + 1, Len(outbox[p]))]
    /\ hpos' = [hpos EXCEPT ![p] = 0]
    /\ inbox' = [inbox EXCEPT ![p] = SubSeq(inbox[p], lpos[p] + 1, Len(inbox[p]))]
    /\ lpos' = [lpos EXCEPT ![p] = 0]
    /\ UNCHANGED <<startup, playerside, clients, lock, current_pause, current_time, hpc,
                   hmsg, cstate, opc, lpc, cmds, ninputs>>

QueuesBounded ==
    \A p \in Peers : /\ Len(outbox[p]) <= MaxQueue /\ Len(inbox[p]) <= MaxQueue
                      /\ Len(cmds[p]) <= MaxQueue /\ Len(mpvq[p]) <= MaxQueue

NextEcho ==
    /\ \/ \E p \in 1..EchoPeers : Connect(p)
       \/ \E p \in Peers : Register(p)
       \/ UserPause(1)
       \/ \E p \in Peers : PlayerApply(p)
       \/ \E p \in Peers : ObserveNext(p)
       \/ \E p \in Peers : HandleLine(p)
       \/ \E p \in Peers : WriteState(p)
       \/ \E p \in Peers : AcquireLock(p)
       \/ \E p \in Peers : SendAll(p)
       \/ \E p \in Peers : ListenServer(p)
       \/ \E p \in Peers : Forget(p)
    /\ QueuesBounded'

\* every thread of the relay, both loops of every client and every player
\* keep running
EchoFairness ==
    \A p \in Peers :
        /\ WF_vars(Register(p))
        /\ WF_vars(PlayerApply(p))
        /\ WF_vars(ObserveNext(p))
        /\ WF_vars(HandleLine(p))
        /\ WF_vars(WriteState(p))
        /\ WF_vars(AcquireLock(p))
        /\ WF_vars(SendAll(p))
        /\ WF_vars(ListenServer(p))
        /\ WF_vars(Forget(p))

SpecEcho == Init /\ [][NextEcho]_vars /\ EchoFairness

\* ================================================================ claims
\* the handler of connection c takes the next line of its connection
TakesLine(c) == hpos'[c] = hpos[c] + 1
LineOf(c) == outbox[c][hpos[c] + 1]
IsEvent(line, ev) == line.t = "obj" /\ Has(line.obj, "event") /\ line.obj.event = ev
\* the handler of connection c performs its round
SendStep(c) == hpc[c] = "send" /\ hpc'[c] # "send"
\* the round of c wrote one more line to p
WroteTo(c, p) ==
    /\ Len(inbox'[p]) = Len(inbox[p]) + 1
    /\ SubSeq(inbox'[p], 1, Len(inbox[p])) = inbox[p]
    /\ inbox'[p][Len(inbox'[p])].line = Dumps(hmsg[c])
\* no connection was written the same event twice
AtMostOnce ==
    \A p \in Peers : \A i, j \in DOMAIN inbox[p] :
        i # j => inbox[p][i].line.obj.id # inbox[p][j].line.obj.id

\* C1: a time update within the tolerance of the position the handler reads
\* changes nothing and is written to nobody; one beyond it becomes the
\* position and is written exactly once to every registered connection but
\* the sender's.
C1_TimeUpdate ==
    [][/\ \A c \in Peers :
            /\ (TakesLine(c) /\ IsEvent(LineOf(c), "time")) =>
                 IF Abs(LineOf(c).obj.raw_time - current_time) <= time_tolerance
                 THEN /\ hpc'[c] = "recv" /\ hmsg'[c] = NoMsg
                      /\ current_time' = current_time
                      /\ current_pause' = current_pause
                      /\ inbox' = inbox
                 ELSE /\ hpc'[c] = "write" /\ hmsg'[c] = LineOf(c).obj
                      /\ inbox' = inbox
            /\ (hpc[c] = "write" /\ hpc'[c] # "write" /\ hmsg[c].event = "time") =>
                 /\ current_time' = hmsg[c].raw_time
                 /\ hpc'[c] = "bcast" /\ hmsg'[c] = hmsg[c]
                 /\ inbox' = inbox
            /\ (hpc[c] = "bcast" /\ hpc'[c] # "bcast") =>
                 /\ hpc'[c] = "send" /\ hmsg'[c] = hmsg[c]
                 /\ inbox' = inbox
            /\ (SendStep(c) /\ hmsg[c].event = "time") =>
                 /\ hpc'[c] = "recv"
                 /\ \A p \in Peers :
                      IF p \in clients /\ p # c THEN WroteTo(c, p)
                      ELSE inbox'[p] = inbox[p]
       /\ (inbox' # inbox => \E c \in Peers : SendStep(c))
       /\ AtMostOnce'
      ]_vars

TimeLine(p, v, n) == Dumps([event |-> "time", raw_time |-> v, source |-> client_id(p), id |-> n])

\* position 100.0: 101.0 from a was suppressed, the following 103.5 was
\* written to b and is the position
C1_Witness ==
    \E a, b \in Peers :
        /\ a # b
        /\ outbox[a] = <<TimeLine(a, 1000, 1), TimeLine(a, 1010, 2), TimeLine(a, 1035, 3)>>
        /\ hpos[a] = 3 /\ hpc[a] = "recv"
        /\ current_time = 1035
        /\ Len(inbox[b]) = 2
        /\ inbox[b][1].line = TimeLine(a, 1000, 1)
        /\ inbox[b][2].line = TimeLine(a, 1035, 3)

IsPauseEntry(e) == IsEvent(e.line, "pause")
PauseSeq(p) == SelectSeq(inbox[p], IsPauseEntry)
NoPauseSent(p) == \A i \in DOMAIN outbox[p] : ~IsEvent(outbox[p][i], "pause")

\* C2: of repeated pause events with one value only the first is broadcast:
\* a peer that sends no pause event itself is never written the same pause
\* value twice in a row.
C2_PauseIdempotent ==
    \A p \in Peers :
        NoPauseSent(p) =>
            \A i \in 1..(Len(PauseSeq(p)) - 1) :
                PauseSeq(p)[i].line.obj.paused # PauseSeq(p)[i + 1].line.obj.paused

\* C3: no connection is written an event that carries its own client's
\* identity.
C3_NoSelfEcho ==
    \A p \in Peers : \A i \in DOMAIN inbox[p] :
        ~(Has(inbox[p][i].line.obj, "source")
          /\ inbox[p][i].line.obj.source = client_id(p))

C3_Witness ==
    \E p, q, r \in Peers :
        /\ p # q /\ p # r /\ q # r
        /\ hpc[r] = "closed"
        /\ \E i \in DOMAIN inbox[p] : inbox[p][i].line.obj.source = client_id(q)
        /\ \E i \in DOMAIN inbox[q] : inbox[q][i].line.obj.source = client_id(p)

\* a step of handler d that reads or writes the canonical state or performs
\* a round
TouchesState(d) ==
    \/ TakesLine(d) /\ (IsEvent(LineOf(d), "pause") \/ IsEvent(LineOf(d), "time"))
    \/ hpc[d] = "write" /\ hpc'[d] # "write"
    \/ SendStep(d)

\* C4: from an event's comparison to the end of its round no other handler
\* reads or writes the canonical state or performs a round.
C4_CriticalSection ==
    [][\A c, d \in Peers :
           (c # d /\ hpc[c] \in {"write", "bcast", "send"}) => ~TouchesState(d)
      ]_vars

\* C5: every line the relay writes is, source and all, a line some client
\* sent to it.
C5_SourcePreserved ==
    \A p \in Peers : \A i \in DOMAIN inbox[p] :
        \E q \in Peers : \E j \in DOMAIN outbox[q] :
            /\ outbox[q][j] = inbox[p][i].line
            /\ outbox[q][j].obj.source = client_id(q)

C5_Witness ==
    \E p, q \in Peers :
        /\ p # q
        /\ \E i \in DOMAIN inbox[p] :
             /\ IsEvent(inbox[p][i].line, "pause")
             /\ inbox[p][i].line.obj.source = client_id(q)
        /\ \E i \in DOMAIN inbox[p] :
             /\ IsEvent(inbox[p][i].line, "time")
             /\ inbox[p][i].line.obj.source = client_id(q)

\* C6: a line that is no JSON changes nothing at the relay but the reading
\* position of its connection: the canonical state, the registered
\* connections, every handler and every connection's written lines stay as
\* they are, and the handler is back at its read.
C6_InvalidJSONDropped ==
    [][\A c \in Peers :
           (TakesLine(c) /\ LineOf(c).t = "badjson") =>
               /\ c \in clients /\ clients' = clients
               /\ hpc[c] = "recv" /\ hpc' = hpc /\ hmsg' = hmsg
               /\ lock' = lock
               /\ current_pause' = current_pause /\ current_time' = current_time
               /\ inbox' = inbox
      ]_vars

\* the event a peer sent right after `{not json` was accepted and written
C6_Witness ==
    \E c, p \in Peers :
        /\ c # p
        /\ \E i \in DOMAIN outbox[c] :
             /\ outbox[c][i] = BadJsonLine
             /\ i + 1 <= hpos[c]
             /\ IsEvent(outbox[c][i + 1], "pause")
             /\ \E j \in DOMAIN inbox[p] : inbox[p][j].line = outbox[c][i + 1]
        /\ hpc[c] = "recv" /\ c \in clients

\* the round of this step had a write that raised
RoundFailed == \E p \in Peers :
    /\ Len(inbox'[p]) = Len(inbox[p]) + 1
    /\ ~inbox'[p][Len(inbox'[p])].ok

\* C7: a round in which a write raises still writes the event to every
\* registered connection but the sender's, leaves the sender's handler in its
\* loop and the registered connections as they are; a connection leaves the
\* registered set only in the exit of its own handler.
C7_FailureIsolated ==
    [][/\ \A c \in Peers :
            (SendStep(c) /\ RoundFailed) =>
               /\ \A p \in clients \ {c} :
                    /\ WroteTo(c, p)
                    /\ cstate[p] # "exited" => inbox'[p][Len(inbox'[p])].ok
               /\ hpc'[c] = "recv"
               /\ clients' = clients
       /\ \A p \in Peers :
            (p \in clients /\ p \notin clients') =>
               (hpc[p] = "finally" /\ hpc'[p] = "closed")
      ]_vars

\* a write to p raised, q was written the same event after it, p is still
\* registered and the sender's handler is in its loop
C7_Witness ==
    \E p, q, c \in Peers :
        /\ p < q /\ c # p /\ c # q
        /\ p \in clients /\ hpc[c] = "recv" /\ c \in clients
        /\ cstate[q] = "running"
        /\ \E i \in DOMAIN inbox[p] : \E j \in DOMAIN inbox[q] :
             /\ ~inbox[p][i].ok
             /\ inbox[q][j].ok
             /\ inbox[q][j].line = inbox[p][i].line
             /\ inbox[p][i].line.obj.source = client_id(c)
\* the listener of client p reads the next line of its relay connection
ListenStep(p) == lpos'[p] = lpos[p] + 1
InLine(p) == inbox[p][lpos[p] + 1].line
SetPause(v, n) == [cmd |-> "set_property", name |-> "pause", paused |-> v, id |-> n]
SetTime(v, n) == [cmd |-> "set_property", name |-> "time-pos", raw_time |-> v, id |-> n]

\* C8: the listener drops an event that carries its own client's identity
\* without a command to the player; an event of another source passes the
\* check and is applied.
C8_SelfEchoDiscarded ==
    [][\A p \in Peers :
           (ListenStep(p) /\ InLine(p).t = "obj") =>
               IF InLine(p).obj.source = client_id(p)
               THEN cmds' = cmds /\ lpc' = lpc
               ELSE /\ (IsEvent(InLine(p), "pause") /\ Has(InLine(p).obj, "paused")) =>
                         cmds'[p] = Append(cmds[p],
                                           SetPause(InLine(p).obj.paused, InLine(p).obj.id))
                    /\ IsEvent(InLine(p), "time") =>
                         cmds'[p] = Append(cmds[p],
                                           SetTime(InLine(p).obj.raw_time, InLine(p).obj.id))
      ]_vars

\* client p has read an event of its own and one of another client, and has
\* written its player the one command
C8_Witness ==
    \E p \in Peers :
        /\ lpos[p] = 2 /\ lpc[p] = "run"
        /\ IsEvent(inbox[p][1].line, "pause")
        /\ inbox[p][1].line.obj.source = client_id(p)
        /\ IsEvent(inbox[p][2].line, "pause")
        /\ inbox[p][2].line.obj.source # client_id(p)
        /\ Len(cmds[p]) = 3
        /\ cmds[p][3] = SetPause("true", 2)

\* the hub has accepted event n of connection c
Accepted(c, n) == hpc[c] = "write" /\ hmsg[c].id = n
\* client p has written its player a set command for event n
Applied(p, n) ==
    \E i \in DOMAIN cmds[p] : cmds[p][i].cmd = "set_property" /\ cmds[p][i].id = n
Healthy(p) == cstate[p] = "running" /\ lpc[p] = "run"
\* every set command of p carries the value of an event another client sent,
\* and no event was applied twice
AppliedOnce ==
    \A p \in Peers : \A i \in DOMAIN cmds[p] :
        cmds[p][i].cmd = "set_property" =>
            /\ \A j \in DOMAIN cmds[p] :
                 (j # i /\ cmds[p][j].cmd = "set_property") => cmds[p][j].id # cmds[p][i].id
            /\ \E q \in Peers \ {p} : \E k \in DOMAIN outbox[q] :
                 /\ outbox[q][k].t = "obj"
                 /\ outbox[q][k].obj.id = cmds[p][i].id
                 /\ IF cmds[p][i].name = "pause"
                    THEN /\ IsEvent(outbox[q][k], "pause")
                         /\ outbox[q][k].obj.paused = cmds[p][i].paused
                    ELSE /\ IsEvent(outbox[q][k], "time")
                         /\ outbox[q][k].obj.raw_time = cmds[p][i].raw_time

\* C9: an event the hub accepts is applied, once and with its value, by
\* every other client that is registered with a live connection when it is
\* accepted, unless that client goes away; the sender is never written its
\* own event and never applies it.
C9_AppliedByOthers ==
    /\ \A p \in Peers : \A n \in 1..SyncInputs :
         ((\E c \in Peers \ {p} : Accepted(c, n)) /\ p \in clients /\ Healthy(p))
             ~> (Applied(p, n) \/ cstate[p] # "running")
    /\ [](AppliedOnce /\ C3_NoSelfEcho)

\* A's pause event was accepted and B has applied it; A has nothing to read
C9_Witness ==
    \E a, b \in Peers :
        /\ a # b
        /\ Len(outbox[a]) >= 1 /\ IsEvent(outbox[a][1], "pause")
        /\ Applied(b, outbox[a][1].obj.id)
        /\ inbox[a] = <<>>
        /\ cstate[a] = "running" /\ cstate[b] = "running"

\* C10: no malformed line ends a loop of the client.
C10_MalformedSkipped ==
    \A p \in Peers : opc[p] # "crashed" /\ lpc[p] # "crashed"

\* C11: connecting to the player ends: a failed dial before the deadline has
\* passed is followed by a sleep of at least the interval and another dial,
\* with no error; a dial that succeeds is followed by the dial of the relay;
\* a failed dial found after the deadline raises the timeout; the timeout is
\* raised only after the deadline and with no relay socket, which only the
\* step after a successful dial creates.
C11_ConnectTerminates ==
    /\ <>(cpc \in {"connected", "timeout", "relay_error"})
    /\ [](cpc = "timeout" => (now > connect_deadline /\ server_sock = "None"))
    /\ [][/\ (cpc = "caught" /\ cpc' # cpc) =>
               cpc' = (IF now <= connect_deadline THEN "sleep" ELSE "timeout")
          /\ (cpc = "sleep" /\ cpc' # cpc) =>
               (cpc' = "dial" /\ now' >= now + retry_interval)
          /\ (cpc = "dial" /\ cpc' # cpc) =>
               cpc' = (IF ipc_up THEN "relay" ELSE "caught")
          /\ (server_sock' # server_sock) => cpc = "relay"
          /\ (cpc \in {"connected", "timeout", "relay_error"}) => cpc' = cpc
         ]_vars

\* the player never listened: dials were retried until the deadline had
\* passed and the timeout was raised, no relay socket created
C11_Witness ==
    cpc = "timeout" /\ ~ipc_up /\ now > connect_deadline /\ server_sock = "None"
\* C12: a client whose listening loop or observing loop has ended on a closed
\* stream ends.
C12_SessionEnds ==
    \A p \in Peers : (lpc[p] = "ended" \/ opc[p] = "ended") ~> (cstate[p] = "exited")
\* what connection p was written, in order, is in the order its sender sent it
OrderedInbox ==
    \A p \in Peers : \A i, j \in DOMAIN inbox[p] :
        (i < j /\ inbox[p][i].line.obj.source = inbox[p][j].line.obj.source) =>
            \E q \in Peers : \E k, l \in DOMAIN outbox[q] :
                /\ k < l
                /\ outbox[q][k] = inbox[p][i].line
                /\ outbox[q][l] = inbox[p][j].line

\* C13: a handler takes the lines of its connection one at a time in the
\* order sent, and takes the next only after the state update and the round
\* of the one before are done; every connection is written the events of one
\* sender in the order that sender sent them.
C13_OrderPreserved ==
    [][/\ \A c \in Peers :
            /\ hpos'[c] \in {hpos[c], hpos[c] + 1}
            /\ TakesLine(c) => (hpc[c] = "recv" /\ hmsg[c] = NoMsg /\ lock # c)
            /\ (hpc[c] \in {"write", "bcast", "send"} /\ hpc'[c] = "recv") =>
                 (SendStep(c) /\ \A p \in clients \ {c} : WroteTo(c, p))
       /\ OrderedInbox'
      ]_vars

\* b was written two events of a, the one a sent first before the other
C13_Witness ==
    \E a, b \in Peers :
        /\ a # b
        /\ Len(outbox[a]) >= 2 /\ Len(inbox[b]) >= 2
        /\ \E k \in 1..(Len(outbox[a]) - 1) :
             /\ inbox[b][1].line = outbox[a][k]
             /\ inbox[b][2].line = outbox[a][k + 1]
Handling == {"recv", "write", "bcast", "send"}
\* the registered connections are those whose handler has registered and has
\* not been through its finally clause
Registered ==
    \A c \in Peers : c \in clients <=> hpc[c] \in Handling \cup {"finally"}

\* C14: a connection is registered from its handler's registration until the
\* handler's exit; a handler leaves its loop (on end of stream, on a read
\* error, on an exception of the handling) only into the finally clause,
\* which removes and closes the connection; a removed connection is never
\* written again, nor registered again.
C14_RegisteredWhileHandling ==
    [][/\ Registered'
       /\ \A c \in Peers :
            /\ (hpc[c] = "accepted" /\ hpc'[c] # "accepted") =>
                 (hpc'[c] = "recv" /\ clients' = clients \cup {c})
            /\ (hpc[c] \in Handling /\ hpc'[c] \notin Handling) => hpc'[c] = "finally"
            /\ (hpc[c] = "finally" /\ hpc'[c] # "finally") =>
                 (hpc'[c] = "closed" /\ clients' = clients \ {c})
            /\ hpc[c] = "closed" => hpc'[c] = "closed"
            /\ c \notin clients => inbox'[c] = inbox[c]
      ]_vars

\* the handler of c left on an exception while its client runs: c is removed
\* and closed, and a round made since wrote to e and not to c
C14_Witness ==
    \E c, d, e \in Peers :
        /\ c # d /\ c # e /\ d # e
        /\ hpc[c] = "closed" /\ cstate[c] = "running" /\ c \notin clients
        /\ outbox[c] = <<NonObjLine>>
        /\ inbox[c] = <<>>
        /\ Len(inbox[e]) = 1 /\ inbox[e][1].line.obj.source = client_id(d)

\* a line that is JSON of an unexpected shape
Unexpected(line) ==
    \/ line.t = "nonobj"
    \/ IsEvent(line, "time") /\ Has(line.obj, "raw_time") /\ ~IsNumber(line.obj.raw_time)

\* C15: a line that is JSON of an unexpected shape changes nothing at the
\* relay but the reading position of its connection: the connection stays
\* registered, its handler is back at its read, the canonical state and every
\* connection's written lines stay as they are.
C15_UnexpectedShapeDropped ==
    [][\A c \in Peers :
           (TakesLine(c) /\ Unexpected(LineOf(c))) =>
               /\ c \in clients /\ clients' = clients
               /\ hpc'[c] = "recv"
               /\ current_pause' = current_pause /\ current_time' = current_time
               /\ inbox' = inbox
      ]_vars

\* C16: the canonical pause value is a boolean and the canonical position is
\* a number.
C16_StateShape ==
    current_pause \in {"true", "false"} /\ IsNumber(current_time)
\* the observing loop of client p reads the next line of its player
ObserveStep(p) == mpvq[p] # <<>> /\ mpvq'[p] = Tail(mpvq[p])
IsChange(line, name) ==
    /\ line.t = "obj" /\ Has(line.obj, "event") /\ line.obj.event = "property-change"
    /\ Has(line.obj, "name") /\ line.obj.name = name
SentEvent(p, event, n) == Dumps([k \in DOMAIN event \cup {"source", "id"} |->
                                  IF k = "source" THEN client_id(p)
                                  ELSE IF k = "id" THEN n ELSE event[k]])

\* C17: with its relay connection open, the observing loop sends a pause
\* event with the value for a property-change of pause, a time event with the
\* value for a property-change of time-pos that has one, and for every other
\* notification sends nothing and runs on; nothing else sends an event.
C17_Forwarding ==
    [][\A p \in Peers :
        /\ (ObserveStep(p) /\ hpc[p] # "closed") =>
             LET line == Head(mpvq[p])
             IN  IF IsChange(line, "pause")
                 THEN /\ outbox'[p] = Append(outbox[p],
                            SentEvent(p, [event |-> "pause",
                                          paused |-> IF Has(line.obj, "data")
                                                     THEN line.obj.data ELSE "null"],
                                      line.obj.id))
                      /\ opc'[p] = opc[p]
                 ELSE IF IsChange(line, "time-pos") /\ Has(line.obj, "data")
                 THEN /\ outbox'[p] = Append(outbox[p],
                            SentEvent(p, [event |-> "time", raw_time |-> line.obj.data],
                                      line.obj.id))
                      /\ opc'[p] = opc[p]
                 ELSE IF line.t \in {"obj", "blank"}
                 THEN outbox'[p] = outbox[p] /\ opc'[p] = "run"
                 ELSE outbox'[p] = outbox[p]
        /\ outbox'[p] # outbox[p] => ObserveStep(p)
      ]_vars

\* two notifications were read, none is left: the first sent nothing and the
\* loop ran on, the second was sent as a pause event
C17_Witness ==
    \E p \in Peers :
        /\ ninputs = 2
        /\ Len(outbox[p]) = 1 /\ IsEvent(outbox[p][1], "pause") /\ outbox[p][1].obj.id = 2
        /\ \A q \in Peers :
             /\ mpvq[q] = <<>> /\ opc[q] = "run" /\ inbox[q] = <<>>
             /\ cstate[q] # "exited" /\ hpc[q] # "closed"
             /\ q # p => outbox[q] = <<>>
\* no handler is between its read and the end of its round, and every line
\* sent to the relay has been taken
HubQuiet ==
    \A c \in Peers : hpc[c] \in {"none", "accepted", "recv", "closed"}
                      /\ (hpc[c] = "recv" => hpos[c] = Len(outbox[c]))
\* nobody has gone away, every connection that was opened is registered and
\* no write has failed
Steady ==
    \A p \in Peers :
        /\ cstate[p] # "exited"
        /\ cstate[p] = "running" => p \in clients
        /\ \A i \in DOMAIN inbox[p] : inbox[p][i].ok
\* p was written every pause event that any connection was written
GotEveryPause(p) ==
    \A q \in Peers : \A i \in DOMAIN inbox[q] :
        IsPauseEntry(inbox[q][i]) =>
            \E j \in DOMAIN inbox[p] : inbox[p][j].line = inbox[q][i].line

\* C19: when the relay is quiet, nobody has gone away and no write has
\* failed, the last pause value written to a registered peer that has sent
\* no pause event itself and was written every pause event the relay wrote
\* is the canonical pause value.
C19_PauseConverges ==
    (HubQuiet /\ Steady) =>
        \A p \in clients :
            (NoPauseSent(p) /\ GotEveryPause(p) /\ PauseSeq(p) # <<>>) =>
                PauseSeq(p)[Len(PauseSeq(p))].line.obj.paused = current_pause
RegisterStep(c) == hpc[c] = "accepted" /\ hpc'[c] # "accepted"
DeregisterStep(c) == hpc[c] = "finally" /\ hpc'[c] # "finally"
\* registering and deregistering leave the canonical state, every other
\* handler and every connection's written lines as they are
RegistrationFrame ==
    [][\A c \in Peers :
           (RegisterStep(c) \/ DeregisterStep(c)) =>
               /\ clients' = (IF RegisterStep(c) THEN clients \cup {c} ELSE clients \ {c})
               /\ current_pause' = current_pause /\ current_time' = current_time
               /\ inbox' = inbox
               /\ hmsg' = hmsg /\ lock' = lock
               /\ \A d \in Peers \ {c} : hpc'[d] = hpc[d]
      ]_vars
\* event n was accepted, and not yet written to anybody, while p was not
\* registered
AcceptedWithout(p, n) ==
    /\ p \notin clients
    /\ \E c \in Peers : hpc[c] \in {"write", "bcast"} /\ hmsg[c].id = n
WrittenTo(p, n) == \E i \in DOMAIN inbox[p] : inbox[p][i].line.obj.id = n

\* C20: registering and deregistering change the registered connections and
\* nothing else, and a connection is written only events that were accepted
\* while it was registered.
C20_RegistrationFrame ==
    /\ RegistrationFrame
    /\ \A p \in Peers : \A n \in 1..SyncInputs :
         [](AcceptedWithout(p, n) => [](~WrittenTo(p, n)))
\* nothing is under way: no notification, command or line is unread and no
\* handler is between its read and the end of its round
Quiet ==
    \A p \in Peers :
        /\ mpvq[p] = <<>> /\ cmds[p] = <<>>
        /\ hpos[p] = Len(outbox[p]) /\ lpos[p] = Len(inbox[p])
        /\ hpc[p] \in {"none", "accepted", "recv"}

\* C18: after the last change a user makes, the system comes to rest with
\* nothing under way.
C18_Quiesces == <>[]Quiet
====
